---- MODULE Spec2Model ----
(***************************************************************************)
(* The lux command line dispatcher (bin/lux): one process invocation that  *)
(* parses a subcommand, resolves environment variables, gates project      *)
(* scoped handlers on the working directory and runs a promise chain of    *)
(* external handlers, reporting the outcome through exit / rescue.         *)
(***************************************************************************)
EXTENDS Integers, Sequences, FiniteSets, TLC

(***************************************************************************)
(* Bounds of the model.                                                    *)
(***************************************************************************)
\* handlers resolve with the numbers 0..MaxCode (besides non-numbers)
MaxCode == 1
\* handlers reject with one of the errors 1..NumErrors
NumErrors == 2

(***************************************************************************)
(* JavaScript values.  Every value is a record of the same shape: t is the *)
(* result of typeof (with "error" for Error objects and "unset" for a key  *)
(* missing from process.env), n the numeric payload, s the string payload  *)
(* (or "NaN" for the number NaN).                                          *)
(***************************************************************************)
Undefined == [t |-> "undefined", n |-> 0, s |-> ""]
Unset == [t |-> "unset", n |-> 0, s |-> ""]
Str(str) == [t |-> "string", n |-> 0, s |-> str]
Num(i) == [t |-> "number", n |-> i, s |-> ""]
NaN == [t |-> "number", n |-> 0, s |-> "NaN"]
Bool(b) == [t |-> "boolean", n |-> IF b THEN 1 ELSE 0, s |-> ""]
Obj(tag) == [t |-> "object", n |-> 0, s |-> tag]
Err(msg) == [t |-> "error", n |-> 0, s |-> msg]

\* ToBoolean of a value, as used by `if (val)` and `!useWeak`
Truthy(v) ==
  CASE v.t = "undefined" -> FALSE
    [] v.t = "unset" -> FALSE
    [] v.t = "string" -> v.s # ""
    [] v.t = "number" -> v.s # "NaN" /\ v.n # 0
    [] v.t = "boolean" -> v.n = 1
    [] OTHER -> TRUE

\* a negation that was left out
NotMissing(v) == Bool(Truthy(v))

\* the logical negation operator `!x`
Not(v) == Bool(~Truthy(v))

Digit(d) ==
  CASE d = 0 -> "0" [] d = 1 -> "1" [] d = 2 -> "2" [] d = 3 -> "3"
    [] d = 4 -> "4" [] d = 5 -> "5" [] d = 6 -> "6" [] d = 7 -> "7"
    [] d = 8 -> "8" [] d = 9 -> "9"

RECURSIVE NatToStr(_)
NatToStr(i) == IF i < 10 THEN Digit(i) ELSE NatToStr(i \div 10) \o Digit(i % 10)

\* process.env stores String(value): every write is coerced to a string
EnvCoerce(v) ==
  CASE v.t = "string" -> v
    [] v.t = "number" ->
         IF v.s = "NaN" THEN Str("NaN")
         ELSE IF v.n < 0 THEN Str("-" \o NatToStr(0 - v.n)) ELSE Str(NatToStr(v.n))
    [] v.t = "boolean" -> IF v.n = 1 THEN Str("true") ELSE Str("false")
    [] v.t = "undefined" -> Str("undefined")
    [] OTHER -> Str("[object Object]")

(***************************************************************************)
(* Characters of the strings the program inspects character by character   *)
(* (command names under the needsProject pattern, the working directory    *)
(* under indexOf, the --port argument under parseInt).                     *)
(***************************************************************************)
Chars(s) ==
  CASE s = "create" -> <<"c", "r", "e", "a", "t", "e">>
    [] s = "test" -> <<"t", "e", "s", "t">>
    [] s = "build" -> <<"b", "u", "i", "l", "d">>
    [] s = "repl" -> <<"r", "e", "p", "l">>
    [] s = "serve" -> <<"s", "e", "r", "v", "e">>
    [] s = "generate" -> <<"g", "e", "n", "e", "r", "a", "t", "e">>
    [] s = "destroy" -> <<"d", "e", "s", "t", "r", "o", "y">>
    [] s = "dbcreate" -> <<"d", "b", "c", "r", "e", "a", "t", "e">>
    [] s = "dbdrop" -> <<"d", "b", "d", "r", "o", "p">>
    [] s = "dbmigrate" -> <<"d", "b", "m", "i", "g", "r", "a", "t", "e">>
    [] s = "dbrollback" -> <<"d", "b", "r", "o", "l", "l", "b", "a", "c", "k">>
    [] s = "dbseed" -> <<"d", "b", "s", "e", "e", "d">>
    [] s = "console" -> <<"c", "o", "n", "s", "o", "l", "e">>
    [] s = "db:create" -> <<"d", "b", ":", "c", "r", "e", "a", "t", "e">>
    [] s = "db:x" -> <<"d", "b", ":", "x">>
    [] s = "db:" -> <<"d", "b", ":">>
    [] s = "xtest" -> <<"x", "t", "e", "s", "t">>
    [] s = "builds" -> <<"b", "u", "i", "l", "d", "s">>
    [] s = "/app" -> <<"/", "a", "p", "p">>
    [] s = "/lux/test/test-app" ->
         <<"/", "l", "u", "x", "/", "t", "e", "s", "t", "/",
           "t", "e", "s", "t", "-", "a", "p", "p">>
    [] s = "/mylux/test/test-app2" ->
         <<"/", "m", "y", "l", "u", "x", "/", "t", "e", "s", "t", "/",
           "t", "e", "s", "t", "-", "a", "p", "p", "2">>
    [] s = "lux/test/test-app" ->
         <<"l", "u", "x", "/", "t", "e", "s", "t", "/",
           "t", "e", "s", "t", "-", "a", "p", "p">>
    [] s = "5000" -> <<"5", "0", "0", "0">>
    [] s = "0" -> <<"0">>
    [] s = "abc" -> <<"a", "b", "c">>
    [] s = "boom" -> <<"b", "o", "o", "m">>
    [] s = "[public]x" -> <<"[", "p", "u", "b", "l", "i", "c", "]", "x">>
    [] s = "a[PUBLIC]b[Public]" -> <<"a", "[", "P", "U", "B", "L", "I", "C", "]", "b", "[", "P", "u", "b", "l", "i", "c", "]">>
    [] s = "[public" -> <<"[", "p", "u", "b", "l", "i", "c">>
    [] s = "x" -> <<"x">>
    [] s = "ab" -> <<"a", "b">>
    [] s = "" -> <<>>

\* String.prototype.indexOf(needle) >= 0 on character sequences
Contains(hay, needle) ==
  \E i \in 0..(Len(hay) - Len(needle)) :
    \A j \in 1..Len(needle) : hay[i + j] = needle[j]

DigitVal(c) ==
  CASE c = "0" -> 0 [] c = "1" -> 1 [] c = "2" -> 2 [] c = "3" -> 3
    [] c = "4" -> 4 [] c = "5" -> 5 [] c = "6" -> 6 [] c = "7" -> 7
    [] c = "8" -> 8 [] c = "9" -> 9 [] OTHER -> -1

\* length of the longest prefix of cs made of decimal digits
RECURSIVE DigitPrefix(_)
DigitPrefix(cs) ==
  IF cs = <<>> \/ DigitVal(Head(cs)) < 0 THEN 0 ELSE 1 + DigitPrefix(Tail(cs))

RECURSIVE DigitsValue(_, _)
DigitsValue(cs, k) ==
  IF k = 0 THEN 0 ELSE 10 * DigitsValue(cs, k - 1) + DigitVal(cs[k])

\* Number.parseInt(port, 10): the leading decimal digits, NaN when none
ParseInt(cs) ==
  LET k == DigitPrefix(cs) IN IF k = 0 THEN NaN ELSE Num(DigitsValue(cs, k))

\* the coercion of the --port option; an option that is not given stays undefined
PortOption(raw) == IF raw.t = "string" THEN ParseInt(Chars(raw.s)) ELSE raw

(***************************************************************************)
(* Program constants.                                                      *)
(***************************************************************************)
DefaultPort == 4000
DefaultEnv == "development"
NotLuxMessage == "Directory does not contain a valid Lux application."
FixtureSegment == "lux/test/test-app"
EnvKeys == {"NODE_ENV", "PORT", "LUX_CONSOLE"}

\* handlers exported by ../dist that the dispatcher calls
Handlers ==
  {"create", "test", "build", "repl", "serve", "generate", "destroy",
   "dbcreate", "dbdrop", "dbmigrate", "dbrollback", "dbseed"}
DbHandlers == {"dbcreate", "dbdrop", "dbmigrate", "dbrollback", "dbseed"}

\* names given to exec in the gateway-only specification
ExecNames ==
  Handlers \cup {"console", "db:create", "db:x", "db:", "xtest", "builds"}

\* contents of package.json in the working directory
Manifests == {"missing", "malformed", "nodeps", "without", "with"}
Cwds == {"/app", "/lux/test/test-app", "/mylux/test/test-app2"}

\* the working directories one dispatcher invocation starts in
Projects ==
  {<<"/app", "with">>, <<"/app", "without">>, <<"/app", "missing">>,
   <<"/lux/test/test-app", "missing">>}

VARIABLES
  cwd,       \* process.cwd()
  manifest,  \* what require(cwd/package.json) finds
  env,       \* process.env restricted to EnvKeys
  argv,      \* the parsed command line of this invocation
  promise,   \* the promise at the tail of the chain built so far
  pending,   \* the external handler whose promise is not settled yet
  chain,     \* the reactions (.then / .catch) not run yet
  log,       \* everything observable that happened, in order
  pc         \* "start", "running", "idle" (nothing left to run) or "exited"

vars == <<cwd, manifest, env, argv, promise, pending, chain, log, pc>>

Event(ev, name, args, val) == [ev |-> ev, name |-> name, args |-> args, val |-> val]

(***************************************************************************)
(* inLuxProject                                                            *)
(***************************************************************************)
\* the body of the try block: "true" / "false" when it returns, "throws" when
\* require fails or dependencies is undefined
ManifestLookup ==
  CASE manifest = "with" -> "true"           \* Boolean('^1.0.0')
    [] manifest = "without" -> "false"       \* Boolean(undefined)
    [] OTHER -> "throws"                     \* require or the lookup throws

\* inLuxProject without its try / catch
inLuxProjectOutcomeUncaught ==
  IF Contains(Chars(cwd), Chars(FixtureSegment)) THEN "true" ELSE ManifestLookup

\* what a call of inLuxProject() ends in
inLuxProjectOutcome ==
  IF Contains(Chars(cwd), Chars(FixtureSegment)) THEN "true"
  ELSE IF ManifestLookup = "throws" THEN "false" ELSE ManifestLookup

inLuxProject == inLuxProjectOutcome = "true"

(***************************************************************************)
(* setEnvVar                                                               *)
(***************************************************************************)
\* setEnvVar testing val against undefined instead of for truthiness
setEnvVarDefined(e, key, val, def) ==
  IF val # Undefined THEN [e EXCEPT ![key] = EnvCoerce(val)]
  ELSE IF e[key] = Unset THEN [e EXCEPT ![key] = EnvCoerce(def)]
  ELSE e

\* setEnvVar whose default overrides a value that is already set
setEnvVarDefaultWins(e, key, val, def) ==
  IF Truthy(val) THEN [e EXCEPT ![key] = EnvCoerce(val)]
  ELSE [e EXCEPT ![key] = EnvCoerce(def)]

setEnvVar(e, key, val, def) ==
  IF Truthy(val) THEN [e EXCEPT ![key] = EnvCoerce(val)]
  ELSE IF e[key] = Unset THEN [e EXCEPT ![key] = EnvCoerce(def)]
  ELSE e

\* setEnvVar writing the default first and the explicit value over it
setEnvVarLogDefaultFirst(e, key, val, def) ==
  IF Truthy(val)
  THEN <<Event("set", key, <<>>, EnvCoerce(def)), Event("set", key, <<>>, EnvCoerce(val))>>
  ELSE IF e[key] = Unset
       THEN <<Event("has", key, <<>>, Undefined), Event("set", key, <<>>, EnvCoerce(def))>>
       ELSE <<Event("has", key, <<>>, Undefined)>>

\* the reads (Reflect.has) and writes (Reflect.set) one setEnvVar call performs
setEnvVarLog(e, key, val, def) ==
  IF Truthy(val) THEN <<Event("set", key, <<>>, EnvCoerce(val))>>
  ELSE IF e[key] = Unset
       THEN <<Event("has", key, <<>>, Undefined), Event("set", key, <<>>, EnvCoerce(def))>>
       ELSE <<Event("has", key, <<>>, Undefined)>>

(***************************************************************************)
(* exec                                                                    *)
(***************************************************************************)
IsPrefix(p, cs) == Len(p) <= Len(cs) /\ \A i \in 1..Len(p) : cs[i] = p[i]

\* the pattern without its ^ and $ anchors
needsProjectUnanchored(cmd) ==
  LET cs == Chars(cmd) IN
    \/ \E i \in 1..Len(cs) : IsPrefix(<<"d", "b", ":">>, SubSeq(cs, i, Len(cs))) /\ i + 3 <= Len(cs)
    \/ \E alt \in {Chars("test"), Chars("build"), Chars("serve"), Chars("console"),
                    Chars("generate"), Chars("destroy")} : Contains(cs, alt)

\* new RegExp('^(?:db:.+|test|build|serve|console|generate|destroy)$').test(cmd)
needsProject(cmd) ==
  LET cs == Chars(cmd) IN
    \/ /\ IsPrefix(<<"d", "b", ":">>, cs)
       /\ Len(cs) >= 4
       /\ \A i \in 4..Len(cs) : cs[i] # "\n"
    \/ cs \in {Chars("test"), Chars("build"), Chars("serve"), Chars("console"),
               Chars("generate"), Chars("destroy")}

NotLuxError == Err(NotLuxMessage)

\* the promise exec returns, the handler it started (if any) and what it did
exec(cmd, args) ==
  IF needsProject(cmd) /\ ~inLuxProject
  THEN [promise |-> [st |-> "rejected", val |-> NotLuxError],
        pending |-> "",
        events |-> <<Event("exec", cmd, args, Undefined),
                     Event("refuse", cmd, args, NotLuxError)>>]
  ELSE [promise |-> [st |-> "pending", val |-> Undefined],
        pending |-> cmd,
        events |-> <<Event("exec", cmd, args, Undefined),
                     Event("call", cmd, args, Undefined)>>]

\* Promise.resolve()
PromiseResolve ==
  [promise |-> [st |-> "fulfilled", val |-> Undefined], pending |-> "", events |-> <<>>]

(***************************************************************************)
(* exit and rescue                                                         *)
(***************************************************************************)
\* ExitCode that also passes strings on to process.exit
ExitCodeLoose(code) == IF code.t \in {"number", "string"} THEN code ELSE Num(0)

\* the argument exit passes to process.exit
ExitCode(code) == IF code.t = "number" THEN code ELSE Num(0)

\* exit(code), called from `by` ("then" for .then(exit), "rescue" for rescue)
exit(by, code) == <<Event("exit", by, <<code>>, ExitCode(code))>>

\* rescue that hands the error itself to exit instead of 1
rescueExitErr(err) ==
  <<Event("rescue", "", <<err>>, err), Event("stderr", "", <<>>, err)>> \o exit("rescue", err)

\* rescue(err): console.error(err.stack) and then exit(1)
rescue(err) ==
  <<Event("rescue", "", <<err>>, err), Event("stderr", "", <<>>, err)>> \o exit("rescue", Num(1))

(***************************************************************************)
(* The command line and the outcomes of the external handlers.             *)
(***************************************************************************)
EnvironmentArgs == {Undefined, Str("production")}
Flags == {Undefined, Bool(TRUE)}
PortArgs == {Undefined, Str("5000"), Str("0"), Str("abc")}
UnknownCommands == {"foo", "db:purge"}

NoOptions ==
  [environment |-> Undefined, useWeak |-> Undefined, skipBuild |-> Undefined,
   port |-> Undefined, hot |-> Undefined, cluster |-> Undefined]

Argv(cmd, options) == [cmd |-> cmd, options |-> options]

ResultVals == {Undefined, Str("3")} \cup {Num(i) : i \in 0..MaxCode}
Errors == {Err(NatToStr(i)) : i \in 1..NumErrors}

\* a reaction registered with .then(fn) or .catch(fn)
Then(fn, name, args) == [on |-> "then", fn |-> fn, name |-> name, args |-> args]
Catch(fn) == [on |-> "catch", fn |-> fn, name |-> "", args |-> <<>>]
ThenExec(name, args) == Then("exec", name, args)
ThenExit == Then("exit", "", <<>>)
CatchRescue == Catch("rescue")

Init ==
  /\ \E p \in Projects : cwd = p[1] /\ manifest = p[2]
  /\ env \in {e \in [EnvKeys -> {Unset, Str("test"), Str("3000")}] :
                /\ e["NODE_ENV"] \in {Unset, Str("test")}
                /\ e["PORT"] \in {Unset, Str("3000")}
                /\ e["LUX_CONSOLE"] = Unset}
  /\ argv = Argv("", NoOptions)
  /\ promise = [st |-> "none", val |-> Undefined]
  /\ pending = ""
  /\ chain = <<>>
  /\ log = <<>>
  /\ pc = "start"

\* Begin with the first step started before the environment is written
BeginExecFirst(a, e, l, first, reactions) ==
  /\ pc = "start"
  /\ argv' = a
  /\ env' = e
  /\ promise' = first.promise
  /\ pending' = first.pending
  /\ log' = log \o first.events \o SubSeq(l, Len(log) + 1, Len(l))
  /\ chain' = reactions
  /\ pc' = "running"
  /\ UNCHANGED <<cwd, manifest>>

\* a command's action callback: the environment it leaves, what it logged so
\* far, the first promise of its chain and the reactions attached to it
Begin(a, e, l, first, reactions) ==
  /\ pc = "start"
  /\ argv' = a
  /\ env' = e
  /\ promise' = first.promise
  /\ pending' = first.pending
  /\ log' = l \o first.events
  /\ chain' = reactions
  /\ pc' = "running"
  /\ UNCHANGED <<cwd, manifest>>

\* BuildStep that builds even when --skip-build is given
BuildStepAlways(skipBuild, useStrict) == exec("build", <<useStrict>>)

\* (skipBuild ? Promise.resolve() : exec('build', useStrict))
BuildStep(skipBuild, useStrict) ==
  IF Truthy(skipBuild) THEN PromiseResolve ELSE exec("build", <<useStrict>>)

(***************************************************************************)
(* The commands.                                                           *)
(***************************************************************************)
ActionN ==
  \E name \in {Str("app")}, database \in {Str("sqlite"), Str("postgres")} :
    Begin(Argv("n", NoOptions), env, log,
          exec("create", <<name, database>>),
          <<ThenExit, CatchRescue>>)

\* the test command without its .then(exit)
ActionTNoExit ==
  Begin(Argv("t", NoOptions), env, log, exec("test", <<>>), <<CatchRescue>>)

ActionT ==
  Begin(Argv("t", NoOptions), env, log, exec("test", <<>>), <<ThenExit, CatchRescue>>)

ActionB ==
  \E environment \in EnvironmentArgs, useWeak \in Flags :
    Begin(Argv("b", [NoOptions EXCEPT !.environment = environment, !.useWeak = useWeak]),
          setEnvVar(env, "NODE_ENV", environment, Str(DefaultEnv)),
          log \o setEnvVarLog(env, "NODE_ENV", environment, Str(DefaultEnv)),
          exec("build", <<Not(useWeak)>>),
          <<ThenExit, CatchRescue>>)

ActionC ==
  \E environment \in EnvironmentArgs, useWeak \in Flags, skipBuild \in Flags :
    LET e1 == setEnvVar(env, "NODE_ENV", environment, Str(DefaultEnv))
        l1 == log \o setEnvVarLog(env, "NODE_ENV", environment, Str(DefaultEnv))
    IN Begin(Argv("c", [NoOptions EXCEPT !.environment = environment,
                                         !.useWeak = useWeak,
                                         !.skipBuild = skipBuild]),
             [e1 EXCEPT !["LUX_CONSOLE"] = EnvCoerce(Bool(TRUE))],
             l1 \o <<Event("set", "LUX_CONSOLE", <<>>, EnvCoerce(Bool(TRUE)))>>,
             BuildStep(skipBuild, Not(useWeak)),
             <<ThenExec("repl", <<>>), ThenExit, CatchRescue>>)

\* ServeFlags handing on the weak flag where the strict flag belongs
ServeFlagsWeak(hot, cluster, useStrict) ==
  [t |-> "object", n |-> 0, s |-> "flags",
   hot |-> hot, cluster |-> cluster, useStrict |-> Not(useStrict)]

\* the object { hot, cluster, useStrict } given to the serve handler
ServeFlags(hot, cluster, useStrict) ==
  [t |-> "object", n |-> 0, s |-> "flags",
   hot |-> hot, cluster |-> cluster, useStrict |-> useStrict]

ActionS ==
  \E hot \in Flags, rawPort \in PortArgs, cluster \in Flags,
     environment \in EnvironmentArgs, useWeak \in Flags, skipBuild \in Flags :
    LET port == PortOption(rawPort)
        useStrict == Not(useWeak)
        e1 == setEnvVar(env, "PORT", port, Num(DefaultPort))
        l1 == log \o setEnvVarLog(env, "PORT", port, Num(DefaultPort))
        e2 == setEnvVar(e1, "NODE_ENV", environment, Str(DefaultEnv))
        l2 == l1 \o setEnvVarLog(e1, "NODE_ENV", environment, Str(DefaultEnv))
    IN Begin(Argv("s", [environment |-> environment, useWeak |-> useWeak,
                        skipBuild |-> skipBuild, port |-> port,
                        hot |-> hot, cluster |-> cluster]),
             e2, l2,
             BuildStep(skipBuild, useStrict),
             <<ThenExec("serve", <<ServeFlags(hot, cluster, useStrict)>>), CatchRescue>>)

ActionG ==
  \E type \in {Str("model")}, name \in {Str("user")}, attrs \in {Obj("attrs")} :
    Begin(Argv("g", NoOptions), env, log,
          exec("generate", <<[t |-> "object", n |-> 0, s |-> "generate",
                              type |-> type, name |-> name, attrs |-> attrs]>>),
          <<ThenExit, CatchRescue>>)

\* destroy resolving NODE_ENV like the build-gated commands do
ActionDSetsEnv ==
  \E type \in {Str("model")}, name \in {Str("user")} :
    Begin(Argv("d", NoOptions),
          setEnvVar(env, "NODE_ENV", Undefined, Str(DefaultEnv)),
          log \o setEnvVarLog(env, "NODE_ENV", Undefined, Str(DefaultEnv)),
          exec("destroy", <<[t |-> "object", n |-> 0, s |-> "destroy",
                             type |-> type, name |-> name]>>),
          <<ThenExit, CatchRescue>>)

ActionD ==
  \E type \in {Str("model")}, name \in {Str("user")} :
    Begin(Argv("d", NoOptions), env, log,
          exec("destroy", <<[t |-> "object", n |-> 0, s |-> "destroy",
                             type |-> type, name |-> name]>>),
          <<ThenExit, CatchRescue>>)

\* the shape shared by the db:* actions: NODE_ENV, the optional build, then
\* the database handlers in order, exit and rescue
DbAction(cmd, steps) ==
  \E environment \in EnvironmentArgs, useWeak \in Flags, skipBuild \in Flags :
    LET useStrict == Not(useWeak) IN
      Begin(Argv(cmd, [NoOptions EXCEPT !.environment = environment,
                                        !.useWeak = useWeak,
                                        !.skipBuild = skipBuild]),
            setEnvVar(env, "NODE_ENV", environment, Str(DefaultEnv)),
            log \o setEnvVarLog(env, "NODE_ENV", environment, Str(DefaultEnv)),
            BuildStep(skipBuild, useStrict),
            [i \in 1..Len(steps) |-> ThenExec(steps[i], <<>>)] \o <<ThenExit, CatchRescue>>)

ActionDbCreate == DbAction("db:create", <<"dbcreate">>)
ActionDbDrop == DbAction("db:drop", <<"dbdrop">>)
\* db:reset creating before dropping
ActionDbResetSwapped == DbAction("db:reset", <<"dbcreate", "dbdrop">>)
ActionDbReset == DbAction("db:reset", <<"dbdrop", "dbcreate">>)
ActionDbMigrate == DbAction("db:migrate", <<"dbmigrate">>)
ActionDbRollback == DbAction("db:rollback", <<"dbrollback">>)
ActionDbSeed == DbAction("db:seed", <<"dbseed">>)

\* commandNotFound that also reports a failure
commandNotFoundFails ==
  \E cmd \in UnknownCommands :
    /\ pc = "start"
    /\ argv' = Argv(cmd, NoOptions)
    /\ log' = log \o <<Event("stdout", "commandNotFound", <<Str(cmd)>>, Undefined)>>
                  \o exit("rescue", Num(1))
    /\ pc' = "exited"
    /\ UNCHANGED <<cwd, manifest, env, promise, pending, chain>>

\* cli.on('*', commandNotFound): the notice on standard output, nothing else
commandNotFound ==
  \E cmd \in UnknownCommands :
    /\ pc = "start"
    /\ argv' = Argv(cmd, NoOptions)
    /\ log' = log \o <<Event("stdout", "commandNotFound", <<Str(cmd)>>, Undefined)>>
    /\ pc' = "idle"
    /\ UNCHANGED <<cwd, manifest, env, promise, pending, chain>>

\* if (!cli.args.length) cli.help()
Help ==
  /\ pc = "start"
  /\ log' = log \o <<Event("stdout", "help", <<>>, Undefined)>>
  /\ pc' = "exited"
  /\ UNCHANGED <<cwd, manifest, env, argv, promise, pending, chain>>

(***************************************************************************)
(* The external handlers settle; the reactions of the chain run.           *)
(***************************************************************************)
HandlerResolve ==
  /\ pc = "running" /\ pending # ""
  /\ \E v \in ResultVals :
       /\ promise' = [st |-> "fulfilled", val |-> v]
       /\ log' = log \o <<Event("resolve", pending, <<>>, v)>>
  /\ pending' = ""
  /\ UNCHANGED <<cwd, manifest, env, argv, chain, pc>>

HandlerReject ==
  /\ pc = "running" /\ pending # ""
  /\ \E err \in Errors :
       /\ promise' = [st |-> "rejected", val |-> err]
       /\ log' = log \o <<Event("reject", pending, <<>>, err)>>
  /\ pending' = ""
  /\ UNCHANGED <<cwd, manifest, env, argv, chain, pc>>

Settled == promise.st \in {"fulfilled", "rejected"}
Ready == pc = "running" /\ pending = "" /\ Settled /\ chain # <<>>
AfterReaction == IF Tail(chain) = <<>> THEN "idle" ELSE "running"

\* RunThenExec handing the previous step's value to the next handler
RunThenExecPassesValue ==
  /\ Ready /\ Head(chain).on = "then" /\ Head(chain).fn = "exec"
  /\ promise.st = "fulfilled"
  /\ LET r == exec(Head(chain).name, <<promise.val>>) IN
       /\ promise' = r.promise
       /\ pending' = r.pending
       /\ log' = log \o r.events
  /\ chain' = Tail(chain)
  /\ UNCHANGED <<cwd, manifest, env, argv, pc>>

\* RunThenExec that also runs its callback when the promise was rejected
RunThenExecAnyway ==
  /\ Ready /\ Head(chain).on = "then" /\ Head(chain).fn = "exec"
  /\ LET r == exec(Head(chain).name, Head(chain).args) IN
       /\ promise' = r.promise
       /\ pending' = r.pending
       /\ log' = log \o r.events
  /\ chain' = Tail(chain)
  /\ UNCHANGED <<cwd, manifest, env, argv, pc>>

\* .then(() => exec(name, ...)) on a fulfilled promise: the value is dropped
RunThenExec ==
  /\ Ready /\ Head(chain).on = "then" /\ Head(chain).fn = "exec"
  /\ promise.st = "fulfilled"
  /\ LET r == exec(Head(chain).name, Head(chain).args) IN
       /\ promise' = r.promise
       /\ pending' = r.pending
       /\ log' = log \o r.events
  /\ chain' = Tail(chain)
  /\ UNCHANGED <<cwd, manifest, env, argv, pc>>

\* .then(exit) on a fulfilled promise: exit gets the value, the process ends
RunThenExit ==
  /\ Ready /\ Head(chain).on = "then" /\ Head(chain).fn = "exit"
  /\ promise.st = "fulfilled"
  /\ log' = log \o exit("then", promise.val)
  /\ chain' = Tail(chain)
  /\ pc' = "exited"
  /\ UNCHANGED <<cwd, manifest, env, argv, promise, pending>>

\* .then(f) on a rejected promise: f is not called, the rejection passes on
SkipThen ==
  /\ Ready /\ Head(chain).on = "then" /\ promise.st = "rejected"
  /\ chain' = Tail(chain)
  /\ pc' = AfterReaction
  /\ UNCHANGED <<cwd, manifest, env, argv, promise, pending, log>>

\* .catch(rescue) on a rejected promise
RunCatchRescue ==
  /\ Ready /\ Head(chain).on = "catch" /\ Head(chain).fn = "rescue"
  /\ promise.st = "rejected"
  /\ log' = log \o rescue(promise.val)
  /\ chain' = Tail(chain)
  /\ pc' = "exited"
  /\ UNCHANGED <<cwd, manifest, env, argv, promise, pending>>

\* a chain that ends every fulfilled promise in exit
SkipCatchExits ==
  /\ Ready /\ Head(chain).on = "catch" /\ promise.st = "fulfilled"
  /\ log' = log \o exit("then", promise.val)
  /\ chain' = Tail(chain)
  /\ pc' = "exited"
  /\ UNCHANGED <<cwd, manifest, env, argv, promise, pending>>

\* .catch(f) on a fulfilled promise: f is not called, the value passes on
SkipCatch ==
  /\ Ready /\ Head(chain).on = "catch" /\ promise.st = "fulfilled"
  /\ chain' = Tail(chain)
  /\ pc' = AfterReaction
  /\ UNCHANGED <<cwd, manifest, env, argv, promise, pending, log>>

Next ==
  \/ ActionN \/ ActionT \/ ActionB \/ ActionC \/ ActionS \/ ActionG \/ ActionD
  \/ ActionDbCreate \/ ActionDbDrop \/ ActionDbReset
  \/ ActionDbMigrate \/ ActionDbRollback \/ ActionDbSeed
  \/ commandNotFound \/ Help
  \/ HandlerResolve \/ HandlerReject
  \/ RunThenExec \/ RunThenExit \/ SkipThen \/ RunCatchRescue \/ SkipCatch

Spec == Init /\ [][Next]_vars

(***************************************************************************)
(* The gateway alone: one call of exec with any name and arguments, then   *)
(* the handler it started settles.                                         *)
(***************************************************************************)
ExecArgs == {<<>>, <<Bool(TRUE)>>, <<Str("app"), Str("sqlite")>>}

ExecInit ==
  /\ cwd \in Cwds
  /\ manifest \in Manifests
  /\ env = [k \in EnvKeys |-> Unset]
  /\ argv = Argv("", NoOptions)
  /\ promise = [st |-> "none", val |-> Undefined]
  /\ pending = ""
  /\ chain = <<>>
  /\ log = <<>>
  /\ pc = "start"

ExecCall ==
  /\ pc = "start"
  /\ \E cmd \in ExecNames, args \in ExecArgs :
       LET r == exec(cmd, args) IN
         /\ promise' = r.promise
         /\ pending' = r.pending
         /\ log' = log \o r.events
  /\ pc' = "running"
  /\ UNCHANGED <<cwd, manifest, env, argv, chain>>

ExecNext == ExecCall \/ HandlerResolve \/ HandlerReject

ExecSpec == ExecInit /\ [][ExecNext]_vars

(***************************************************************************)
(* The environment resolver alone: calls of setEnvVar with any key,        *)
(* explicit value and default on any environment; log holds the last call  *)
(* (its arguments and the value the key had) and what the call did.        *)
(***************************************************************************)
EnvValues == {Unset, Str("test"), Str("")}
EnvExplicit == {Undefined, Str("production"), Str(""), Num(5000), Num(0), NaN}
EnvDefaults == {Str(DefaultEnv), Num(DefaultPort)}

EnvInit ==
  /\ cwd = "/app"
  /\ manifest = "with"
  /\ env \in [EnvKeys -> EnvValues]
  /\ argv = Argv("", NoOptions)
  /\ promise = [st |-> "none", val |-> Undefined]
  /\ pending = ""
  /\ chain = <<>>
  /\ log = <<>>
  /\ pc = "start"

SetEnvVarCall ==
  /\ pc = "start"
  /\ \E key \in EnvKeys, val \in EnvExplicit, def \in EnvDefaults :
       /\ env' = setEnvVar(env, key, val, def)
       /\ log' = <<Event("setEnvVar", key, <<val, def>>, env[key])>>
                   \o setEnvVarLog(env, key, val, def)
  /\ UNCHANGED <<cwd, manifest, argv, promise, pending, chain, pc>>

EnvNext == SetEnvVarCall

EnvSpec == EnvInit /\ [][EnvNext]_vars

(***************************************************************************)
(* Reading the log.                                                        *)
(***************************************************************************)
Idx(ev) == {i \in DOMAIN log : log[i].ev = ev}
IdxOf(ev, name) == {i \in DOMAIN log : log[i].ev = ev /\ log[i].name = name}
Calls == Idx("call")
Exits == Idx("exit")
Failures == Idx("reject") \cup Idx("refuse")
Terminal == pc \in {"idle", "exited"}
SkipBuildCommands ==
  {"c", "s", "db:create", "db:drop", "db:reset", "db:migrate", "db:rollback", "db:seed"}
ProjectCommands == SkipBuildCommands \cup {"t", "b", "g", "d"}
Commands == ProjectCommands \cup {"n"}
SkipBuild == Truthy(argv.options.skipBuild)

(***************************************************************************)
(* C1: for every command that accepts --skip-build, with --skip-build the  *)
(* build handler is never invoked (nor asked for); without it every        *)
(* dependent handler is invoked only after build was invoked and resolved, *)
(* and once build rejected or was refused by the project check no          *)
(* dependent handler is invoked.                                           *)
(***************************************************************************)
C1_SkipBuild ==
  argv.cmd \in SkipBuildCommands =>
    /\ SkipBuild => IdxOf("call", "build") = {} /\ IdxOf("exec", "build") = {}
    /\ ~SkipBuild =>
         /\ \A i \in Calls :
              log[i].name # "build" =>
                \E j \in IdxOf("call", "build"), k \in IdxOf("resolve", "build") :
                  j < k /\ k < i
         /\ IdxOf("reject", "build") \cup IdxOf("refuse", "build") # {} =>
              \A i \in Calls : log[i].name = "build"

\* db:reset without --skip-build ended after its build rejected
C1_Witness ==
  /\ argv.cmd = "db:reset" /\ ~SkipBuild
  /\ IdxOf("reject", "build") # {}
  /\ pc = "exited"

(***************************************************************************)
(* C2: a project-scoped command run outside an eligible project invokes no *)
(* external handler and ends in the failure path.                          *)
(***************************************************************************)
C2_FailFast ==
  (argv.cmd \in ProjectCommands /\ ~inLuxProject) =>
    /\ Calls = {}
    /\ Terminal => Idx("rescue") # {}

(***************************************************************************)
(* C3: the handlers of a command are invoked in the declared order, each   *)
(* one after the first only once the previous one resolved, and none after *)
(* a step rejected or was refused.                                         *)
(***************************************************************************)
Steps(cmd) ==
  CASE cmd = "n" -> <<"create">>
    [] cmd = "t" -> <<"test">>
    [] cmd = "b" -> <<"build">>
    [] cmd = "c" -> <<"build", "repl">>
    [] cmd = "s" -> <<"build", "serve">>
    [] cmd = "g" -> <<"generate">>
    [] cmd = "d" -> <<"destroy">>
    [] cmd = "db:create" -> <<"build", "dbcreate">>
    [] cmd = "db:drop" -> <<"build", "dbdrop">>
    [] cmd = "db:reset" -> <<"build", "dbdrop", "dbcreate">>
    [] cmd = "db:migrate" -> <<"build", "dbmigrate">>
    [] cmd = "db:rollback" -> <<"build", "dbrollback">>
    [] cmd = "db:seed" -> <<"build", "dbseed">>
    [] OTHER -> <<>>

DeclaredSteps ==
  IF argv.cmd \in SkipBuildCommands /\ SkipBuild
  THEN Tail(Steps(argv.cmd)) ELSE Steps(argv.cmd)

IsCall(e) == e.ev = "call"
CallSeq == SelectSeq(log, IsCall)

C3_StepOrder ==
  /\ Len(CallSeq) <= Len(DeclaredSteps)
  /\ \A i \in 1..Len(CallSeq) : CallSeq[i].name = DeclaredSteps[i]
  /\ \A j \in Calls, i \in Calls :
       (j < i /\ \A m \in Calls : ~(j < m /\ m < i)) =>
         \E k \in IdxOf("resolve", log[j].name) : j < k /\ k < i
  /\ \A f \in Failures, i \in Calls : i < f

\* db:reset without --skip-build ended after its second step rejected
C3_Witness ==
  /\ argv.cmd = "db:reset" /\ ~SkipBuild
  /\ IdxOf("resolve", "build") # {} /\ IdxOf("reject", "dbdrop") # {}
  /\ Len(CallSeq) = 2
  /\ pc = "exited"

(***************************************************************************)
(* C4: db:reset invokes at most two database handlers, dbdrop first and    *)
(* dbcreate second, dbcreate only after dbdrop resolved; when every step   *)
(* succeeded exactly one dbdrop and one dbcreate were invoked; it never    *)
(* invokes dbmigrate, dbrollback or dbseed.                                *)
(***************************************************************************)
IsDbCall(e) == e.ev = "call" /\ e.name \in DbHandlers
DbCallSeq == SelectSeq(log, IsDbCall)

C4_DbReset ==
  argv.cmd = "db:reset" =>
    /\ Len(DbCallSeq) <= 2
    /\ \A i \in 1..Len(DbCallSeq) : DbCallSeq[i].name = <<"dbdrop", "dbcreate">>[i]
    /\ \A i \in IdxOf("call", "dbcreate") :
         \E j \in IdxOf("call", "dbdrop"), k \in IdxOf("resolve", "dbdrop") :
           j < k /\ k < i
    /\ (Terminal /\ Failures = {}) =>
         /\ Cardinality(IdxOf("call", "dbdrop")) = 1
         /\ Cardinality(IdxOf("call", "dbcreate")) = 1
    /\ \A i \in Calls : log[i].name \notin {"dbmigrate", "dbrollback", "dbseed"}

\* db:reset ended successfully after dropping and creating
C4_Witness ==
  /\ argv.cmd = "db:reset"
  /\ pc = "exited" /\ Failures = {}
  /\ Len(DbCallSeq) = 2

(***************************************************************************)
(* C5: once a step rejected (or was refused), rescue is invoked exactly    *)
(* once, with the error of that step, exit is never reached through        *)
(* .then(exit), and the process is terminated with code 1; until then the  *)
(* rejection with that very error is waiting in front of .catch(rescue).   *)
(***************************************************************************)
C5_RescueOnce ==
  \A f \in Failures :
    /\ IdxOf("exit", "then") = {}
    /\ \/ /\ pc = "exited"
          /\ \E r \in Idx("rescue"), x \in Exits :
               /\ Idx("rescue") = {r} /\ Exits = {x}
               /\ f < r /\ r < x
               /\ log[r].args = <<log[f].val>>
               /\ log[x].name = "rescue" /\ log[x].val = Num(1)
       \/ /\ pc = "running" /\ pending = ""
          /\ Idx("rescue") = {} /\ Exits = {}
          /\ promise = [st |-> "rejected", val |-> log[f].val]
          /\ chain # <<>> /\ chain[Len(chain)] = CatchRescue

\* the second of the three steps of db:reset rejected and rescue has run
C5_Witness ==
  /\ argv.cmd = "db:reset" /\ ~SkipBuild
  /\ IdxOf("reject", "dbdrop") # {}
  /\ Idx("rescue") # {}
  /\ IdxOf("call", "dbcreate") = {}

(***************************************************************************)
(* C6 as stated: every finished execution of a command has requested       *)
(* exactly one process termination.                                        *)
(***************************************************************************)
C6_ExactlyOneExit ==
  (argv.cmd \in Commands /\ Terminal) => Cardinality(Exits) = 1

(***************************************************************************)
(* C6 amended: no command requests more than one termination and none      *)
(* while a step is outstanding; a chain whose step settled always has a    *)
(* reaction left to run; a finished command other than s has requested     *)
(* exactly one termination; a finished s has requested exactly one when    *)
(* build or serve failed and none when serve resolved.                     *)
(***************************************************************************)
C6_ExitOnce ==
  argv.cmd \in Commands =>
    /\ Cardinality(Exits) <= 1
    /\ pc = "running" => Exits = {}
    /\ (pc = "running" /\ pending = "") => Ready
    /\ (Terminal /\ ~(argv.cmd = "s" /\ Failures = {})) => Cardinality(Exits) = 1
    /\ (Terminal /\ argv.cmd = "s" /\ Failures = {}) => Exits = {}

\* serve resolved: the dispatcher has nothing left to run and asked for no exit
C6_Witness ==
  /\ argv.cmd = "s" /\ pc = "idle"
  /\ IdxOf("resolve", "serve") # {}
  /\ Exits = {}

(***************************************************************************)
(* C7: every exit code is a number; after a failure it is 1; otherwise it  *)
(* is the value the final step resolved with when that is a number and 0   *)
(* when it is anything else.                                               *)
(***************************************************************************)
LastOf(S) == CHOOSE i \in S : \A j \in S : j <= i

C7_ExitCode ==
  \A x \in Exits :
    /\ log[x].val.t = "number"
    /\ Failures # {} => log[x].val = Num(1)
    /\ Failures = {} =>
         /\ Idx("resolve") # {}
         /\ LET final == log[LastOf(Idx("resolve"))] IN
              /\ final.name = DeclaredSteps[Len(DeclaredSteps)]
              /\ log[x].val = IF final.val.t = "number" THEN final.val ELSE Num(0)

\* db:reset whose build resolved with 1 and whose dbcreate resolved with the
\* string "3" exited with code 0
C7_Witness ==
  /\ argv.cmd = "db:reset" /\ pc = "exited" /\ Failures = {}
  /\ \E b \in IdxOf("resolve", "build") : log[b].val = Num(1)
  /\ \E c \in IdxOf("resolve", "dbcreate") : log[c].val = Str("3")
  /\ \E x \in Exits : log[x].val = Num(0)

(***************************************************************************)
(* C8: exec(cmd, ...args) with a name of the project-scoped pattern in a   *)
(* directory the validator rejects returns a promise rejected with the     *)
(* 'Directory does not contain a valid Lux application.' error and invokes *)
(* no handler; in every other case it invokes the handler of that name     *)
(* exactly once with exactly the arguments it was given, and the promise   *)
(* it returned settles as the handler's does.                              *)
(***************************************************************************)
ProjectScopedNames ==
  {"test", "build", "serve", "console", "generate", "destroy", "db:create", "db:x"}

C8_Gateway ==
  log # <<>> =>
    LET req == log[1] IN
      /\ req.ev = "exec"
      /\ IF req.name \in ProjectScopedNames /\ ~inLuxProject
         THEN /\ Calls = {}
              /\ pending = ""
              /\ promise = [st |-> "rejected",
                            val |-> Err("Directory does not contain a valid Lux application.")]
         ELSE /\ Cardinality(Calls) = 1
              /\ \A i \in Calls : log[i].name = req.name /\ log[i].args = req.args
              /\ \/ promise.st = "pending" /\ pending = req.name
                 \/ \E k \in IdxOf("resolve", req.name) :
                      promise = [st |-> "fulfilled", val |-> log[k].val]
                 \/ \E k \in IdxOf("reject", req.name) :
                      promise = [st |-> "rejected", val |-> log[k].val]

\* exec('db:x', 'app', 'sqlite') was refused outside a project
C8_Witness ==
  /\ log # <<>> /\ log[1].ev = "exec" /\ log[1].name = "db:x"
  /\ log[1].args = <<Str("app"), Str("sqlite")>>
  /\ ~inLuxProject
  /\ promise.st = "rejected"

(***************************************************************************)
(* C9: setEnvVar(key, val, def): a present explicit value ends up as the   *)
(* variable's value, also over a value that was set; with no explicit      *)
(* value a variable that is set keeps its value and an unset one gets the  *)
(* default; no other key changes.                                          *)
(***************************************************************************)
Present(v) == v \notin {Undefined, Str(""), Num(0), NaN}

C9_SetEnvVar ==
  [][LET key == log'[1].name
         val == log'[1].args[1]
         def == log'[1].args[2]
     IN /\ Present(val) =>
             /\ val.t = "string" => env'[key] = val
             /\ val = Num(5000) => env'[key] = Str("5000")
        /\ (~Present(val) /\ env[key] # Unset) => env'[key] = env[key]
        /\ (~Present(val) /\ env[key] = Unset) =>
             /\ def.t = "string" => env'[key] = def
             /\ def = Num(4000) => env'[key] = Str("4000")
        /\ \A k \in EnvKeys \ {key} : env'[k] = env[k]]_vars

\* setEnvVar('NODE_ENV', undefined, 'development') left the existing 'test'
C9_Witness ==
  /\ log # <<>> /\ log[1].ev = "setEnvVar" /\ log[1].name = "NODE_ENV"
  /\ log[1].args = <<Undefined, Str("development")>>
  /\ log[1].val = Str("test")
  /\ env["NODE_ENV"] = Str("test")

(***************************************************************************)
(* C10: an unrecognized command only prints the 'is not a valid command'   *)
(* notice: no handler is asked for or invoked, rescue is not invoked, no   *)
(* environment variable is written and no exit is requested.               *)
(***************************************************************************)
C10_CommandNotFound ==
  [][argv'.cmd \in UnknownCommands =>
       /\ log' = <<Event("stdout", "commandNotFound", <<Str(argv'.cmd)>>, Undefined)>>
       /\ env' = env
       /\ promise' = promise /\ pending' = "" /\ chain' = <<>>
       /\ pc' = "idle"]_vars

\* the notice for the unknown command foo has been printed
C10_Witness ==
  /\ argv.cmd = "foo" /\ pc = "idle"
  /\ Idx("stdout") # {}

(***************************************************************************)
(* C11: inLuxProject() returns true whenever the working directory path    *)
(* contains lux/test/test-app, whatever the manifest; otherwise it returns *)
(* true exactly when the manifest is readable and declares lux-framework;  *)
(* a missing or malformed manifest or one without dependencies gives       *)
(* false; it never raises.  The gateway refuses a project-scoped name      *)
(* exactly when that answer is false.                                      *)
(***************************************************************************)
PathHasFixture == cwd \in {"/lux/test/test-app", "/mylux/test/test-app2"}

C11_Validator ==
  /\ inLuxProjectOutcome \in {"true", "false"}
  /\ PathHasFixture => inLuxProjectOutcome = "true"
  /\ ~PathHasFixture => (inLuxProjectOutcome = "true" <=> manifest = "with")
  /\ (~PathHasFixture /\ manifest \in {"missing", "malformed", "nodeps"}) =>
       inLuxProjectOutcome = "false"
  /\ \A i \in IdxOf("exec", "build") :
       /\ inLuxProjectOutcome = "true" => log[i + 1].ev = "call"
       /\ inLuxProjectOutcome = "false" => log[i + 1].ev = "refuse"

\* exec('build') went through in a fixture directory without a manifest
C11_Witness ==
  /\ cwd = "/mylux/test/test-app2" /\ manifest = "missing"
  /\ IdxOf("call", "build") # {}

(***************************************************************************)
(* C12: a command that resolves environment values (b, c, s, db commands)  *)
(* leaves                                                                  *)
(* NODE_ENV at the explicit -e value, else the value it had, else          *)
(* 'development'; s also leaves PORT at the explicit --port, else the      *)
(* value it had, else 4000; c also leaves LUX_CONSOLE at true; every       *)
(* write comes before the first step is asked for and no later step of     *)
(* the invocation writes the environment.                                  *)
(***************************************************************************)
EnvCommands == SkipBuildCommands \cup {"b"}

Resolved(explicit, existing, default) ==
  IF Present(explicit) THEN explicit
  ELSE IF existing # Unset THEN existing ELSE default

C12_EnvBeforeSteps ==
  [][/\ (pc = "start" /\ argv'.cmd \in EnvCommands) =>
          /\ env'["NODE_ENV"] =
               Resolved(argv'.options.environment, env["NODE_ENV"], Str("development"))
          /\ argv'.cmd = "s" =>
               env'["PORT"] =
                 Resolved(IF argv'.options.port = Num(5000) THEN Str("5000")
                          ELSE argv'.options.port,
                          env["PORT"], Str("4000"))
          /\ argv'.cmd = "c" => env'["LUX_CONSOLE"] = Str("true")
          /\ env'["NODE_ENV"] # Unset
     /\ pc # "start" =>
          /\ env' = env
          /\ \A i \in DOMAIN log' : log'[i].ev \in {"set", "has"} => i \in DOMAIN log
     /\ \A i \in DOMAIN log', j \in DOMAIN log' :
          (log'[i].ev \in {"set", "has"} /\ log'[j].ev \in {"exec", "call"}) => i < j]_vars

\* serve --port 5000 started its serve handler with PORT 5000 and the NODE_ENV
\* that was already set
C12_Witness ==
  /\ argv.cmd = "s" /\ argv.options.port = Num(5000)
  /\ argv.options.environment = Undefined
  /\ env["PORT"] = Str("5000") /\ env["NODE_ENV"] = Str("test")
  /\ IdxOf("call", "serve") # {}

(***************************************************************************)
(* C13: serve --port 5000 --use-weak (no --hot, --cluster, --skip-build)   *)
(* in an eligible project sets PORT to 5000, invokes build with            *)
(* strict = false first and, once build resolved, the serve handler with   *)
(* hot and cluster falsy and useStrict = false.                            *)
(***************************************************************************)
C13_Case ==
  /\ argv.cmd = "s"
  /\ argv.options = [environment |-> argv.options.environment,
                     useWeak |-> Bool(TRUE), skipBuild |-> Undefined,
                     port |-> Num(5000), hot |-> Undefined, cluster |-> Undefined]
  /\ inLuxProject

C13_ServeWeak ==
  C13_Case =>
    /\ env["PORT"] = Str("5000")
    /\ CallSeq # <<>>
    /\ CallSeq[1].name = "build" /\ CallSeq[1].args = <<Bool(FALSE)>>
    /\ (IdxOf("resolve", "build") # {} /\ Len(chain) <= 1) => IdxOf("call", "serve") # {}
    /\ \A i \in IdxOf("call", "serve") :
         /\ Len(log[i].args) = 1
         /\ ~Truthy(log[i].args[1].hot)
         /\ ~Truthy(log[i].args[1].cluster)
         /\ log[i].args[1].useStrict = Bool(FALSE)

\* that serve invocation has reached its serve handler
C13_Witness == C13_Case /\ IdxOf("call", "serve") # {} /\ Len(CallSeq) = 2

(***************************************************************************)
(* C14: within one invocation every environment key is written at most     *)
(* once and is never read again after it was written.                      *)
(***************************************************************************)
C14_WriteOnce ==
  \A k \in EnvKeys :
    /\ Cardinality(IdxOf("set", k)) <= 1
    /\ \A w \in IdxOf("set", k), r \in IdxOf("has", k) : r < w

\* serve looked for PORT and NODE_ENV, found neither and wrote both defaults
C14_Witness ==
  /\ argv.cmd = "s"
  /\ IdxOf("has", "PORT") # {} /\ IdxOf("set", "PORT") # {}
  /\ IdxOf("has", "NODE_ENV") # {} /\ IdxOf("set", "NODE_ENV") # {}

(***************************************************************************)
(* C15: every invocation of the build handler gets exactly one argument,   *)
(* true when --use-weak is absent and false when it is present; the serve  *)
(* handler gets the same value as useStrict.                               *)
(***************************************************************************)
StrictFlag == IF argv.options.useWeak = Bool(TRUE) THEN Bool(FALSE) ELSE Bool(TRUE)

C15_StrictFlag ==
  /\ \A i \in IdxOf("call", "build") : log[i].args = <<StrictFlag>>
  /\ \A i \in IdxOf("call", "serve") : log[i].args[1].useStrict = StrictFlag

\* db:seed --use-weak invoked build with false
C15_Witness ==
  /\ argv.cmd = "db:seed" /\ argv.options.useWeak = Bool(TRUE)
  /\ \E i \in IdxOf("call", "build") : log[i].args = <<Bool(FALSE)>>

(***************************************************************************)
(* C16: serve never requests termination through the success handler: once *)
(* the serve step resolved no exit is requested, and the only exit serve   *)
(* requests is code 1, from rescue, after its build or serve step failed.  *)
(***************************************************************************)
C16_ServeStaysUp ==
  argv.cmd = "s" =>
    /\ IdxOf("exit", "then") = {}
    /\ IdxOf("resolve", "serve") # {} => Exits = {}
    /\ \A x \in Exits :
         /\ log[x].name = "rescue" /\ log[x].val = Num(1)
         /\ \E f \in Failures : f < x /\ log[f].name \in {"build", "serve"}

\* build resolved with 1, serve resolved, the chain is used up and the
\* process was not asked to end
C16_Witness ==
  /\ argv.cmd = "s" /\ chain = <<>> /\ pc = "idle"
  /\ \E b \in IdxOf("resolve", "build") : log[b].val = Num(1)
  /\ IdxOf("resolve", "serve") # {}

(***************************************************************************)
(* C17: n, t, g and d write no environment variable; only s writes PORT    *)
(* and only c writes LUX_CONSOLE; c writes LUX_CONSOLE on every            *)
(* invocation, also one that then fails the project check or whose build   *)
(* fails.                                                                  *)
(***************************************************************************)
C17_EnvFrame ==
  [][/\ argv'.cmd \in {"n", "t", "g", "d"} =>
          env' = env /\ \A i \in DOMAIN log' : log'[i].ev # "set"
     /\ argv'.cmd # "s" =>
          /\ env'["PORT"] = env["PORT"]
          /\ \A i \in DOMAIN log' : ~(log'[i].ev = "set" /\ log'[i].name = "PORT")
     /\ argv'.cmd # "c" =>
          /\ env'["LUX_CONSOLE"] = env["LUX_CONSOLE"]
          /\ \A i \in DOMAIN log' : ~(log'[i].ev = "set" /\ log'[i].name = "LUX_CONSOLE")
     /\ argv'.cmd = "c" =>
          /\ env'["LUX_CONSOLE"] = Str("true")
          /\ \E i \in DOMAIN log' : log'[i].ev = "set" /\ log'[i].name = "LUX_CONSOLE"]_vars

\* console outside a project: the build was refused, the marker is set
C17_Witness ==
  /\ argv.cmd = "c" /\ ~inLuxProject
  /\ IdxOf("refuse", "build") # {} /\ pc = "exited"
  /\ env["LUX_CONSOLE"] = Str("true")

(***************************************************************************)
(* C18: the value a non-final step resolved with is dropped: every step    *)
(* after the first is invoked with arguments fixed by the parsed options   *)
(* alone, and the exit code of a successful run is fixed by the value of   *)
(* the final step alone, whatever build or dbdrop resolved with.           *)
(***************************************************************************)
ArgsFromOptions(name) ==
  IF name = "serve"
  THEN <<[t |-> "object", n |-> 0, s |-> "flags",
          hot |-> argv.options.hot, cluster |-> argv.options.cluster,
          useStrict |-> StrictFlag]>>
  ELSE <<>>

C18_ResultsDropped ==
  /\ \A i \in Calls :
       (\E j \in Idx("resolve") : j < i) => log[i].args = ArgsFromOptions(log[i].name)
  /\ \A x \in IdxOf("exit", "then") :
       \E k \in IdxOf("resolve", DeclaredSteps[Len(DeclaredSteps)]) :
         /\ k < x
         /\ log[x].args = <<log[k].val>>
         /\ log[x].val = IF log[k].val.t = "number" THEN log[k].val ELSE Num(0)

\* db:reset whose build and dbdrop both resolved with 1 and whose dbcreate
\* resolved with undefined exited with code 0
C18_Witness ==
  /\ argv.cmd = "db:reset" /\ ~SkipBuild
  /\ \E b \in IdxOf("resolve", "build") : log[b].val = Num(1)
  /\ \E d \in IdxOf("resolve", "dbdrop") : log[d].val = Num(1)
  /\ \E c \in IdxOf("resolve", "dbcreate") : log[c].val = Undefined
  /\ \E x \in IdxOf("exit", "then") : log[x].val = Num(0)

(***************************************************************************)
(* C19: a --port that parses to 0 or to NaN is treated by serve as if it   *)
(* were absent: PORT keeps the value it had, or becomes 4000 when it had   *)
(* none; the dispatcher never leaves PORT at 0 or NaN.                     *)
(***************************************************************************)
C19_FalsyPort ==
  [][/\ (pc = "start" /\ argv'.cmd = "s" /\ argv'.options.port \in {Num(0), NaN}) =>
          env'["PORT"] = IF env["PORT"] # Unset THEN env["PORT"] ELSE Str("4000")
     /\ env'["PORT"] \notin {Str("0"), Str("NaN"), Num(0), NaN}
     /\ \A i \in DOMAIN log' :
          (log'[i].ev = "set" /\ log'[i].name = "PORT") =>
            log'[i].val \notin {Str("0"), Str("NaN"), Num(0), NaN}]_vars

\* serve --port abc kept the PORT 3000 that was already set
C19_Witness ==
  /\ argv.cmd = "s" /\ argv.options.port = NaN
  /\ env["PORT"] = Str("3000")
  /\ IdxOf("set", "PORT") = {}

(***************************************************************************)
(* dataFor (packages/server/responder/utils/data-for.js): the body of an   *)
(* error response for a status and an optional error.                      *)
(***************************************************************************)
MinErrorStatus == 400
MaxErrorStatus == 599

Lower(c) ==
  CASE c = "P" -> "p" [] c = "U" -> "u" [] c = "B" -> "b"
    [] c = "L" -> "l" [] c = "I" -> "i" [] c = "C" -> "c" [] OTHER -> c

PublicMarker == <<"[", "p", "u", "b", "l", "i", "c", "]">>

\* /\[public\]/i matches at the start of cs
MarkerAt(cs) ==
  /\ Len(cs) >= Len(PublicMarker)
  /\ \A i \in 1..Len(PublicMarker) : Lower(cs[i]) = PublicMarker[i]

\* /\[public\]/gi.test(message)
RECURSIVE HasPublic(_)
HasPublic(cs) == cs # <<>> /\ (MarkerAt(cs) \/ HasPublic(Tail(cs)))

\* a replace without the g flag: only the first marker goes
RECURSIVE StripPublicFirst(_)
StripPublicFirst(cs) ==
  IF cs = <<>> THEN <<>>
  ELSE IF MarkerAt(cs) THEN SubSeq(cs, Len(PublicMarker) + 1, Len(cs))
  ELSE <<Head(cs)>> \o StripPublicFirst(Tail(cs))

\* message.replace(/\[public\]/gi, '')
RECURSIVE StripPublic(_)
StripPublic(cs) ==
  IF cs = <<>> THEN <<>>
  ELSE IF MarkerAt(cs) THEN StripPublic(SubSeq(cs, Len(PublicMarker) + 1, Len(cs)))
  ELSE <<Head(cs)>> \o StripPublic(Tail(cs))

\* title is STATUS_CODES.get(status), dev is env.isDevelopment(); the result
\* is '' (kind "string") or the document { errors: [errData], jsonapi }
dataFor(status, err, title, dev) ==
  IF status < MinErrorStatus \/ status > MaxErrorStatus
  THEN [kind |-> "string", text |-> "", errors |-> <<>>]
  ELSE LET exposed == err # Undefined /\ (dev \/ HasPublic(Chars(err.s))) IN
       [kind |-> "document", text |-> "",
        errors |-> <<[status |-> NatToStr(status),
                      title |-> title,
                      hasDetail |-> exposed,
                      detail |-> IF exposed THEN StripPublic(Chars(err.s)) ELSE <<>>]>>]

StatusInputs == {200, 399, 400, 404, 500, 599, 600}
ErrInputs ==
  {Undefined, Err("boom"), Err("[public]x"), Err("a[PUBLIC]b[Public]"),
   Err("[public"), Err("")}
TitleInputs == {Undefined, Str("title")}

DataForInit ==
  /\ cwd = "/app"
  /\ manifest = "with"
  /\ env = [k \in EnvKeys |-> Unset]
  /\ argv = Argv("", NoOptions)
  /\ promise = [st |-> "none", val |-> Undefined]
  /\ pending = ""
  /\ chain = <<>>
  /\ log = <<>>
  /\ pc = "start"

\* one call of dataFor; log holds the call and what it returned
DataForCall ==
  /\ pc = "start"
  /\ \E status \in StatusInputs, err \in ErrInputs, title \in TitleInputs,
        dev \in BOOLEAN :
       log' = <<Event("dataFor", "",
                      <<[status |-> status, err |-> err, title |-> title, dev |-> dev]>>,
                      dataFor(status, err, title, dev))>>
  /\ UNCHANGED <<cwd, manifest, env, argv, promise, pending, chain, pc>>

DataForNext == DataForCall

DataForSpec == DataForInit /\ [][DataForNext]_vars

(***************************************************************************)
(* C20: dataFor returns the empty string for a status below 400 or above   *)
(* 599, otherwise a document with exactly one error object whose status is *)
(* the status as a string; detail is present exactly when an error is      *)
(* given and the environment is development or the message carries a       *)
(* [public] marker in any letter case, and it is the message without its   *)
(* markers.                                                                *)
(***************************************************************************)
StatusText(status) ==
  CASE status = 400 -> "400" [] status = 404 -> "404"
    [] status = 500 -> "500" [] status = 599 -> "599" [] OTHER -> "?"

MarkedMessages == {"[public]x", "a[PUBLIC]b[Public]"}

ExpectedDetail(message) ==
  CASE message = "[public]x" -> <<"x">>
    [] message = "a[PUBLIC]b[Public]" -> <<"a", "b">>
    [] message = "boom" -> <<"b", "o", "o", "m">>
    [] message = "[public" -> <<"[", "p", "u", "b", "l", "i", "c">>
    [] OTHER -> <<>>

C20_DataFor ==
  log # <<>> =>
    LET in == log[1].args[1]
        out == log[1].val
    IN IF in.status < 400 \/ in.status > 599
       THEN out.kind = "string" /\ out.text = ""
       ELSE /\ out.kind = "document"
            /\ Len(out.errors) = 1
            /\ out.errors[1].status = StatusText(in.status)
            /\ out.errors[1].hasDetail <=>
                 (in.err # Undefined /\ (in.dev \/ in.err.s \in MarkedMessages))
            /\ out.errors[1].hasDetail => out.errors[1].detail = ExpectedDetail(in.err.s)

\* outside development a 404 with the message a[PUBLIC]b[Public] exposes ab
C20_Witness ==
  /\ log # <<>> /\ log[1].ev = "dataFor"
  /\ log[1].args[1].status = 404 /\ ~log[1].args[1].dev
  /\ log[1].args[1].err = Err("a[PUBLIC]b[Public]")
  /\ log[1].val.errors[1].detail = <<"a", "b">>

====
